---- MODULE Spec2Model ----
(***************************************************************************)
(* A model of the HealthySys backend: the relational tables (user,         *)
(* programs, clients, enrollments, audit_log), the request handlers of     *)
(* main.py with their role guard and audit recorder, and the query         *)
(* functions of db.py.                                                     *)
(*                                                                         *)
(* Every string of the program is a sequence of one-character strings, so  *)
(* that sanitize_input, hash_contact and the LIKE match of search_clients  *)
(* are computed character by character.  A value that no code inspects     *)
(* character by character (an email, a role, a date) is a sequence of one  *)
(* token.  The wall-clock columns (created_at, enrollment_date, timestamp) *)
(* are read by no guard and are left out of the rows.                      *)
(***************************************************************************)
EXTENDS Integers, Sequences, FiniteSets, Bags, TLC

VARIABLES
    running,      \* the application is between lifespan startup and shutdown
    users,        \* table user: email -> role, Absent when no such row
    programs,     \* table programs: set of rows
    clients,      \* table clients: set of rows
    enrollments,  \* table enrollments: set of rows
    audit_log,    \* table audit_log, in id order
    resp,         \* the request served last and its response
    inflight      \* requests suspended at an await, by connection

vars == <<running, users, programs, clients, enrollments, audit_log, resp, inflight>>

-----------------------------------------------------------------------------
(* Bounds of the model *)

MaxPrograms == 2
MaxClients == 2
MaxEnrollments == 2
MaxAudit == 2
MaxInflight == 2

-----------------------------------------------------------------------------
(* Values *)

\* Python's None and SQL's NULL
None == <<"None">>

Admin == <<"admin">>
Staff == <<"staff">>
Viewer == <<"viewer">>
Roles == {Admin, Staff, Viewer}

\* no row of table user
Absent == <<"absent">>

\* a request without a bearer token
Anonymous == <<"anonymous">>

System == <<"system">>
AdminEmail == <<"admin@q.com">>
OtherEmail == <<"u1@x.org">>
Emails == {AdminEmail, OtherEmail}

\* request inputs
EmailInputs == Emails \cup {<<" ", "u1@x.org">>}
RoleInputs == Roles \cup {<<"root">>}
ProgramNames == {<<"T", "B">>, <<"<", "T", "B">>, <<";">>}
Descriptions == {None, <<"d">>}
FirstNames == {<<"J", "o">>, <<"A", "l">>, <<" ", "J", "o">>, <<";">>}
LastNames == {<<"D", "o", "e">>}
Dobs == {<<"1990-01-01">>}
Genders == {<<"F">>}
Contacts == {<<"j", "@", "x">>, <<"5", ";", "5">>}
SearchTerms == {<<"o">>, <<"j">>, <<"_">>, <<";">>}
ProgramIds == {<<ToString(i)>> : i \in 1..MaxPrograms}
ClientIds == {<<ToString(i)>> : i \in 1..MaxClients}

-----------------------------------------------------------------------------
(* utils.py *)

IsSpace(c) == c = " "

RECURSIVE lstrip(_)
lstrip(s) ==
    IF s # <<>> /\ IsSpace(Head(s)) THEN lstrip(Tail(s)) ELSE s

RECURSIVE rstrip(_)
rstrip(s) ==
    IF s # <<>> /\ IsSpace(s[Len(s)]) THEN rstrip(SubSeq(s, 1, Len(s) - 1)) ELSE s

strip(s) == rstrip(lstrip(s))

IsDangerous(c) == c \in {"<", ">", ";"}

\* re.sub(r'[<>;]', '', input_str.strip()); None for None and for an empty result
sanitize_input(input_str) ==
    IF input_str = None THEN None
    ELSE LET sanitized == SelectSeq(strip(input_str), LAMBDA c : ~IsDangerous(c))
         IN  IF Len(sanitized) = 0 THEN None ELSE sanitized

\* a hash_contact that returns its input
hash_contact_plain(contact) == contact

\* hashlib.sha256(contact.encode()).hexdigest(): a digest, one per input and
\* never the input itself
hash_contact(contact) == <<"sha256">> \o contact

-----------------------------------------------------------------------------
(* db.py: the queries, read against the current tables *)

\* str(uuid4()): an identifier no row of the table carries.  Rows are never
\* deleted, so the rows of a table carry "1".."n"
new_id(rows) == <<ToString(Cardinality(rows) + 1)>>

\* INSERT INTO programs; name is NOT NULL
create_program(name, description) ==
    IF name = None
    THEN [err |-> "IntegrityError", id |-> None, rows |-> programs]
    ELSE LET program_id == new_id(programs)
         IN  [err |-> "", id |-> program_id,
              rows |-> programs \cup {[program_id |-> program_id, name |-> name,
                                       description |-> description]}]

\* a query_check that hashes the contact parameter once more
existing_client_rehashed(first_name, last_name, dob, gender, contact) ==
    {c \in clients : /\ c.first_name = first_name
                     /\ c.last_name = last_name
                     /\ c.dob = dob
                     /\ c.gender = gender
                     /\ c.contact = hash_contact(contact)}

\* query_check of create_client: a NULL parameter equals no stored value
existing_client(first_name, last_name, dob, gender, contact) ==
    {c \in clients : /\ c.first_name = first_name
                     /\ c.last_name = last_name
                     /\ c.dob = dob
                     /\ c.gender = gender
                     /\ c.contact = contact}

\* an INSERT into a table with a UNIQUE constraint over the tuple
insert_client_unique(first_name, last_name, dob, gender, contact) ==
    IF \/ None \in {first_name, last_name, dob, gender, contact}
       \/ \E c \in clients : /\ c.first_name = first_name
                             /\ c.last_name = last_name
                             /\ c.dob = dob
                             /\ c.gender = gender
                             /\ c.contact = contact
    THEN [err |-> "IntegrityError", id |-> None, rows |-> clients]
    ELSE LET client_id == new_id(clients)
         IN  [err |-> "", id |-> client_id,
              rows |-> clients \cup {[client_id |-> client_id, first_name |-> first_name,
                                      last_name |-> last_name, dob |-> dob,
                                      gender |-> gender, contact |-> contact]}]

\* INSERT INTO clients; every column is NOT NULL
insert_client(first_name, last_name, dob, gender, contact) ==
    IF None \in {first_name, last_name, dob, gender, contact}
    THEN [err |-> "IntegrityError", id |-> None, rows |-> clients]
    ELSE LET client_id == new_id(clients)
         IN  [err |-> "", id |-> client_id,
              rows |-> clients \cup {[client_id |-> client_id, first_name |-> first_name,
                                      last_name |-> last_name, dob |-> dob,
                                      gender |-> gender, contact |-> contact]}]

\* a create_client that inserts without looking for the tuple
create_client_unchecked(first_name, last_name, dob, gender, contact) ==
    insert_client(first_name, last_name, dob, gender, contact)

create_client(first_name, last_name, dob, gender, contact) ==
    IF existing_client(first_name, last_name, dob, gender, contact) # {}
    THEN [err |-> "Client already exists", id |-> None, rows |-> clients]
    ELSE insert_client(first_name, last_name, dob, gender, contact)

\* a check that finds every client_id
check_client_exists_any(client_id) == TRUE

check_client_exists(client_id) == \E c \in clients : c.client_id = client_id

check_program_exists(program_id) == \E p \in programs : p.program_id = program_id

\* INSERT INTO enrollments
insert_enrollment(client_id, program_id) ==
    LET enrollment_id == new_id(enrollments)
    IN  [err |-> "", id |-> enrollment_id,
         rows |-> enrollments \cup {[enrollment_id |-> enrollment_id,
                                     client_id |-> client_id,
                                     program_id |-> program_id]}]

\* a create_enrollment that looks for the program before the client
create_enrollment_program_first(client_id, program_id) ==
    IF ~check_program_exists(program_id)
    THEN [err |-> "Program does not exist", id |-> None, rows |-> enrollments]
    ELSE IF ~check_client_exists(client_id)
    THEN [err |-> "Client does not exist", id |-> None, rows |-> enrollments]
    ELSE insert_enrollment(client_id, program_id)

create_enrollment(client_id, program_id) ==
    IF ~check_client_exists(client_id)
    THEN [err |-> "Client does not exist", id |-> None, rows |-> enrollments]
    ELSE IF ~check_program_exists(program_id)
    THEN [err |-> "Program does not exist", id |-> None, rows |-> enrollments]
    ELSE insert_enrollment(client_id, program_id)

\* SQLite's LIKE folds the case of ASCII letters
lower(c) ==
    CASE c = "J" -> "j"
      [] c = "A" -> "a"
      [] c = "D" -> "d"
      [] c = "T" -> "t"
      [] c = "B" -> "b"
      [] c = "N" -> "n"
      [] OTHER -> c

\* SQLite's LIKE: % matches any run of characters, _ any one character
RECURSIVE like(_, _)
like(s, pattern) ==
    IF pattern = <<>> THEN s = <<>>
    ELSE IF Head(pattern) = "%"
    THEN like(s, Tail(pattern)) \/ (s # <<>> /\ like(Tail(s), pattern))
    ELSE /\ s # <<>>
         /\ Head(pattern) = "_" \/ lower(Head(pattern)) = lower(Head(s))
         /\ like(Tail(s), Tail(pattern))

\* f"%{search_term}%": a None term is formatted as the text None
like_pattern(search_term) ==
    <<"%">> \o (IF search_term = None THEN <<"N", "o", "n", "e">> ELSE search_term) \o <<"%">>

\* WHERE first_name LIKE :search_term OR last_name LIKE :search_term
search_clients(search_term) ==
    {c \in clients : \/ like(c.first_name, like_pattern(search_term))
                     \/ like(c.last_name, like_pattern(search_term))}

\* programs p JOIN enrollments e ON p.program_id = e.program_id WHERE
\* e.client_id = :client_id: one row per enrollment, in no stated order
joined_programs(client_id) ==
    LET rows == {p \in programs : \E e \in enrollments :
                     e.client_id = client_id /\ e.program_id = p.program_id}
    IN  [p \in rows |-> Cardinality({e \in enrollments :
                     e.client_id = client_id /\ e.program_id = p.program_id})]

\* the profile of the client with its programs; found is FALSE where the code
\* returns None
get_client_profile(client_id) ==
    IF ~\E c \in clients : c.client_id = client_id
    THEN [found |-> FALSE]
    ELSE LET client == CHOOSE c \in clients : c.client_id = client_id
         IN  [found |-> TRUE,
              client_id |-> client.client_id, first_name |-> client.first_name,
              last_name |-> client.last_name, dob |-> client.dob,
              gender |-> client.gender, contact |-> client.contact,
              programs |-> joined_programs(client_id)]

-----------------------------------------------------------------------------
(* main.py: authentication, the role guard and the audit recorder *)

Actors == Emails \cup {Anonymous}

\* fastapi_users.current_user(active=True): the bearer token names a stored user
get_current_user(actor) == actor \in Emails /\ users[actor] # Absent

\* a role_checker that lets every authenticated user pass
require_role_unchecked(role, user_role) == TRUE

\* a role_checker under which admin also passes for the other roles
require_role_hierarchy(role, user_role) == user_role = role \/ user_role = Admin

\* role_checker of require_role: TRUE when the user passes
require_role(role, user_role) == user_role = role

ForbiddenDetail(role) ==
    CASE role = Admin -> "Operation requires admin role"
      [] role = Staff -> "Operation requires staff role"
      [] OTHER -> "Operation requires viewer role"

\* the dependencies of an endpoint: 0 when the handler body runs, else the
\* status of the rejection.  role is None for Depends(get_current_user)
depends(actor, role) ==
    IF ~get_current_user(actor) THEN 401
    ELSE IF role # None /\ ~require_role(role, users[actor]) THEN 403
    ELSE 0

DependsDetail(actor, role) ==
    IF ~get_current_user(actor) THEN "Unauthorized" ELSE ForbiddenDetail(role)

AuditLog(user_id, action, details) ==
    [user_id |-> user_id, action |-> action, details |-> details]

\* a log_action that keeps the newest row only
log_action_newest_only(log, user_id, action, details, commit) ==
    IF commit THEN <<AuditLog(user_id, action, details)>> ELSE log

\* a log_action that records every row under the system actor
log_action_as_system(log, user_id, action, details, commit) ==
    IF commit THEN Append(log, AuditLog(System, action, details)) ELSE log

\* log_action: session.add(audit_log); await session.commit().  commit is the
\* outcome of the commit: TRUE writes the row, FALSE raises
log_action(log, user_id, action, details, commit) ==
    IF commit THEN Append(log, AuditLog(user_id, action, details)) ELSE log

\* audit_middleware after call_next: when get_current_user(request) yields a
\* user a row is added, when it raises none is.  Which of the two happens is
\* decided inside fastapi_users: resolved is that outcome
audit_middleware(log, actor, action, resolved) ==
    IF resolved /\ get_current_user(actor)
    THEN Append(log, AuditLog(actor, action, <<<<"Client IP">>>>))
    ELSE log

\* What a request meets outside the program: the outcome of the audit commit
\* and of the middleware's user lookup
Environments == [commit : BOOLEAN, resolved : BOOLEAN]

\* the environments in which every commit succeeds and the middleware's lookup
\* raises
Healthy == [commit : {TRUE}, resolved : {FALSE}]

\* The rows of requests that can be repeated without end (role changes, reads,
\* middleware rows); the rows of the other requests are bounded by the other
\* tables
Repeated(log) ==
    Cardinality({i \in DOMAIN log :
        /\ log[i].action \notin {"create_program", "create_client",
                                 "create_enrollment", "register"}
        /\ ~(log[i].action = "init_admin" /\ log[i].details[1] = <<"Created">>)})

\* MaxAudit bounds the repeated rows: a request that would add one more is
\* not followed
AuditRoom(log, log_after) == Repeated(log_after) > Repeated(log) => Repeated(log) < MaxAudit

\* a connection with no request suspended on it
NoRequest == [pc |-> "idle", actor |-> Anonymous, req |-> <<>>]

\* a response without a JSON body of the model's interest.  A body is the set
\* of the JSON objects returned
NoBody == {}

NoResponse ==
    [op |-> "none", actor |-> Anonymous, req |-> <<>>, status |-> 0,
     detail |-> "", body |-> NoBody]

\* the response leaves through the middleware
Serve(op, actor, req, status, detail, body, log, action, env) ==
    /\ AuditRoom(audit_log, log)
    /\ AuditRoom(log, audit_middleware(log, actor, action, env.resolved))
    /\ resp' = [op |-> op, actor |-> actor, req |-> req, status |-> status,
                detail |-> detail, body |-> body]
    /\ audit_log' = audit_middleware(log, actor, action, env.resolved)

Init ==
    /\ running = FALSE
    /\ users = [e \in Emails |-> Absent]
    /\ programs = {}
    /\ clients = {}
    /\ enrollments = {}
    /\ audit_log = <<>>
    /\ resp = NoResponse
    /\ inflight = [s \in 1..MaxInflight |-> NoRequest]

Idle == \A s \in 1..MaxInflight : inflight[s].pc = "idle"

\* a lifespan whose bootstrap row is written outside the admin_count test
lifespan_startup_logs_always(env) ==
    /\ ~running
    /\ running' = TRUE
    /\ resp' = NoResponse
    /\ IF (\E e \in Emails : users[e] = Admin) \/ users[AdminEmail] # Absent
       THEN UNCHANGED users
       ELSE users' = [users EXCEPT ![AdminEmail] = Admin]
    /\ audit_log' = log_action(audit_log, System, "init_admin",
                               <<<<"Created">>, AdminEmail>>, env.commit)
    /\ UNCHANGED <<programs, clients, enrollments, inflight>>

\* lifespan up to the yield: the schema is created if missing, and an admin
\* user when no user has role admin.  A failure inside the try block is logged
lifespan_startup(env) ==
    /\ ~running
    /\ running' = TRUE
    /\ resp' = NoResponse
    /\ IF \E e \in Emails : users[e] = Admin
       THEN UNCHANGED <<users, audit_log>>
       ELSE IF users[AdminEmail] # Absent
       \* user_manager.create raises UserAlreadyExists
       THEN UNCHANGED <<users, audit_log>>
       ELSE /\ users' = [users EXCEPT ![AdminEmail] = Admin]
            /\ audit_log' = log_action(audit_log, System, "init_admin",
                                       <<<<"Created">>, AdminEmail>>, env.commit)
    /\ UNCHANGED <<programs, clients, enrollments, inflight>>

\* lifespan after the yield
lifespan_shutdown ==
    /\ running
    /\ Idle
    /\ running' = FALSE
    /\ resp' = NoResponse
    /\ UNCHANGED <<users, programs, clients, enrollments, audit_log, inflight>>

-----------------------------------------------------------------------------
(* main.py: the routes.  Each action is one request served from its
   dependencies to the middleware's return *)

\* POST /auth/register and UserManager.on_after_register: the new user has the
\* column default role; a failed commit of the register row leaves the route
\* with an unhandled exception
register(email, env) ==
    /\ running
    /\ LET op == "register"
           path == "POST /auth/register"
       IN  IF users[email] # Absent
           THEN /\ UNCHANGED users
                /\ Serve(op, Anonymous, <<email>>, 400, "REGISTER_USER_ALREADY_EXISTS",
                         NoBody, audit_log, path, env)
           ELSE /\ users' = [users EXCEPT ![email] = Viewer]
                /\ IF env.commit
                   THEN Serve(op, Anonymous, <<email>>, 201, "", {[email |-> email]},
                              log_action(audit_log, email, "register", <<email>>, TRUE),
                              path, env)
                   ELSE Serve(op, Anonymous, <<email>>, 500, "Internal Server Error",
                              NoBody, audit_log, path, env)
    /\ UNCHANGED <<running, programs, clients, enrollments, inflight>>

\* an UPDATE without its WHERE clause
update_role_all(email, role) ==
    [e \in Emails |-> IF users[e] = Absent THEN Absent ELSE role]

\* UPDATE user SET role = :role WHERE email = :email
update_role(email, role) == [users EXCEPT ![email] = role]

\* POST /api/set-role (line 215 is read as the except clause the try statement
\* requires)
set_user_role(actor, email_in, role_in, env) ==
    /\ running
    /\ LET op == "set_role"
           req == <<email_in, role_in>>
           path == "POST /api/set-role"
           rejected == depends(actor, Admin)
           email == sanitize_input(email_in)
           role == sanitize_input(role_in)
       IN  IF rejected # 0
           THEN /\ UNCHANGED users
                /\ Serve(op, actor, req, rejected, DependsDetail(actor, Admin), NoBody,
                         audit_log, path, env)
           ELSE IF role \notin Roles
           THEN /\ UNCHANGED users
                /\ Serve(op, actor, req, 404, "Invalid role", NoBody, audit_log, path, env)
           ELSE IF email \notin Emails \/ users[email] = Absent
           THEN /\ UNCHANGED users
                /\ Serve(op, actor, req, 404, "User not found", NoBody, audit_log, path, env)
           ELSE /\ users' = update_role(email, role)
                /\ IF env.commit
                   THEN Serve(op, actor, req, 200, "", {[email |-> email, role |-> role]},
                              log_action(audit_log, actor, "set_role", <<email, role>>, TRUE),
                              path, env)
                   ELSE Serve(op, actor, req, 400, "Failed to update role", NoBody,
                              audit_log, path, env)
    /\ UNCHANGED <<running, programs, clients, enrollments, inflight>>

\* POST /api/init-admin: no dependency guards it
init_admin(actor, email_in, env) ==
    /\ running
    /\ LET op == "init_admin"
           req == <<email_in>>
           path == "POST /api/init-admin"
           email == sanitize_input(email_in)
       IN  IF email \notin Emails \/ users[email] = Absent
           THEN /\ UNCHANGED users
                /\ Serve(op, actor, req, 404, "User not found", NoBody, audit_log, path, env)
           ELSE /\ users' = [users EXCEPT ![email] = Admin]
                /\ IF env.commit
                   THEN Serve(op, actor, req, 200, "", {[email |-> email]},
                              log_action(audit_log, System, "init_admin", <<<<"Set">>, email>>, TRUE),
                              path, env)
                   ELSE Serve(op, actor, req, 400, "Failed to set admin", NoBody,
                              audit_log, path, env)
    /\ UNCHANGED <<running, programs, clients, enrollments, inflight>>

\* POST /api/programs
create_program_endpoint(actor, name_in, description_in, env) ==
    /\ running
    /\ LET op == "create_program"
           req == <<name_in, description_in>>
           path == "POST /api/programs"
           rejected == depends(actor, Admin)
           name == sanitize_input(name_in)
           description == IF description_in # None /\ description_in # <<>>
                          THEN sanitize_input(description_in) ELSE None
           r == create_program(name, description)
       IN  IF rejected # 0
           THEN /\ UNCHANGED programs
                /\ Serve(op, actor, req, rejected, DependsDetail(actor, Admin), NoBody,
                         audit_log, path, env)
           ELSE IF r.err # ""
           THEN /\ UNCHANGED programs
                /\ Serve(op, actor, req, 400, "Failed to create program", NoBody,
                         audit_log, path, env)
           ELSE /\ Cardinality(programs) < MaxPrograms
                /\ programs' = r.rows
                /\ IF env.commit
                   THEN Serve(op, actor, req, 201, "",
                              {[program_id |-> r.id, name |-> name, description |-> description]},
                              log_action(audit_log, actor, "create_program", <<r.id, name>>, TRUE),
                              path, env)
                   ELSE Serve(op, actor, req, 400, "Failed to create program", NoBody,
                              audit_log, path, env)
    /\ UNCHANGED <<running, users, clients, enrollments, inflight>>

\* POST /api/clients
create_client_endpoint(actor, first_name_in, last_name_in, dob_in, gender_in, contact_in, env) ==
    /\ running
    /\ LET op == "create_client"
           req == <<first_name_in, last_name_in, dob_in, gender_in, contact_in>>
           path == "POST /api/clients"
           rejected == depends(actor, Staff)
           first_name == sanitize_input(first_name_in)
           last_name == sanitize_input(last_name_in)
           dob == sanitize_input(dob_in)
           gender == sanitize_input(gender_in)
           contact == sanitize_input(contact_in)
           \* hash_contact(None) raises AttributeError
           r == IF contact = None
                THEN [err |-> "AttributeError", id |-> None, rows |-> clients]
                ELSE create_client(first_name, last_name, dob, gender, hash_contact(contact))
       IN  IF rejected # 0
           THEN /\ UNCHANGED clients
                /\ Serve(op, actor, req, rejected, DependsDetail(actor, Staff), NoBody,
                         audit_log, path, env)
           ELSE IF r.err = "Client already exists"
           THEN /\ UNCHANGED clients
                /\ Serve(op, actor, req, 409, r.err, NoBody, audit_log, path, env)
           ELSE IF r.err # ""
           THEN /\ UNCHANGED clients
                /\ Serve(op, actor, req, 400, "Failed to create client", NoBody,
                         audit_log, path, env)
           ELSE /\ Cardinality(clients) < MaxClients
                /\ clients' = r.rows
                /\ IF env.commit
                   THEN Serve(op, actor, req, 201, "",
                              {[client_id |-> r.id, first_name |-> first_name,
                                last_name |-> last_name, dob |-> dob, gender |-> gender,
                                contact |-> contact, programs |-> EmptyBag]},
                              log_action(audit_log, actor, "create_client",
                                         <<r.id, first_name, last_name>>, TRUE),
                              path, env)
                   ELSE Serve(op, actor, req, 400, "Failed to create client", NoBody,
                              audit_log, path, env)
    /\ UNCHANGED <<running, users, programs, enrollments, inflight>>

\* "already exists" in str(e)
already_exists_in(err) ==
    err \in {"Client already exists", "Program already exists", "Enrollment already exists"}

\* POST /api/enrollments
create_enrollment_endpoint(actor, client_id, program_id, env) ==
    /\ running
    /\ LET op == "create_enrollment"
           req == <<client_id, program_id>>
           path == "POST /api/enrollments"
           rejected == depends(actor, Staff)
           r == create_enrollment(client_id, program_id)
       IN  IF rejected # 0
           THEN /\ UNCHANGED enrollments
                /\ Serve(op, actor, req, rejected, DependsDetail(actor, Staff), NoBody,
                         audit_log, path, env)
           ELSE IF r.err # ""
           THEN /\ UNCHANGED enrollments
                /\ Serve(op, actor, req, IF already_exists_in(r.err) THEN 409 ELSE 404,
                         r.err, NoBody, audit_log, path, env)
           ELSE /\ Cardinality(enrollments) < MaxEnrollments
                /\ enrollments' = r.rows
                /\ IF env.commit
                   THEN Serve(op, actor, req, 201, "",
                              {[enrollment_id |-> r.id, client_id |-> client_id,
                                program_id |-> program_id]},
                              log_action(audit_log, actor, "create_enrollment",
                                         <<r.id, client_id, program_id>>, TRUE),
                              path, env)
                   ELSE Serve(op, actor, req, 400, "Failed to create enrollment", NoBody,
                              audit_log, path, env)
    /\ UNCHANGED <<running, users, programs, clients, inflight>>

\* POST /api/clients/search: every result carries "programs": []
search_clients_endpoint(actor, search_term_in, env) ==
    /\ running
    /\ LET op == "search_clients"
           req == <<search_term_in>>
           path == "POST /api/clients/search"
           rejected == depends(actor, None)
           search_term == sanitize_input(search_term_in)
           found == search_clients(search_term)
       IN  IF rejected # 0
           THEN Serve(op, actor, req, rejected, DependsDetail(actor, None), NoBody,
                      audit_log, path, env)
           ELSE IF env.commit
           THEN Serve(op, actor, req, 200, "",
                      {[client_id |-> c.client_id, first_name |-> c.first_name,
                        last_name |-> c.last_name, dob |-> c.dob, gender |-> c.gender,
                        contact |-> c.contact, programs |-> EmptyBag] : c \in found},
                      log_action(audit_log, actor, "search_clients",
                                 <<search_term, <<ToString(Cardinality(found))>>>>, TRUE),
                      path, env)
           ELSE Serve(op, actor, req, 400, "Failed to search clients", NoBody,
                      audit_log, path, env)
    /\ UNCHANGED <<running, users, programs, clients, enrollments, inflight>>

\* GET /api/clients/{client_id}
get_client_profile_endpoint(actor, client_id, env) ==
    /\ running
    /\ LET op == "get_client_profile"
           req == <<client_id>>
           path == "GET /api/clients/{client_id}"
           rejected == depends(actor, None)
           profile == get_client_profile(client_id)
       IN  IF rejected # 0
           THEN Serve(op, actor, req, rejected, DependsDetail(actor, None), NoBody,
                      audit_log, path, env)
           ELSE IF ~profile.found
           THEN Serve(op, actor, req, 404, "Client not found", NoBody, audit_log, path, env)
           ELSE IF env.commit
           THEN Serve(op, actor, req, 200, "", {profile},
                      log_action(audit_log, actor, "get_client_profile", <<client_id>>, TRUE),
                      path, env)
           ELSE Serve(op, actor, req, 400, "Failed to fetch client profile", NoBody,
                      audit_log, path, env)
    /\ UNCHANGED <<running, users, programs, clients, enrollments, inflight>>

-----------------------------------------------------------------------------
(* Requests served one at a time: a request starts when the one before it has
   returned *)

Next ==
    \/ \E env \in Environments : lifespan_startup(env)
    \/ lifespan_shutdown
    \/ \E email \in Emails, env \in Environments : register(email, env)
    \/ \E actor \in Actors, email \in EmailInputs, role \in RoleInputs, env \in Environments :
           set_user_role(actor, email, role, env)
    \/ \E actor \in Actors, email \in EmailInputs, env \in Environments :
           init_admin(actor, email, env)
    \/ \E actor \in Actors, name \in ProgramNames, description \in Descriptions,
          env \in Environments :
           create_program_endpoint(actor, name, description, env)
    \/ \E actor \in Actors, first_name \in FirstNames, last_name \in LastNames,
          dob \in Dobs, gender \in Genders, contact \in Contacts, env \in Environments :
           create_client_endpoint(actor, first_name, last_name, dob, gender, contact, env)
    \/ \E actor \in Actors, client_id \in ClientIds, program_id \in ProgramIds,
          env \in Environments :
           create_enrollment_endpoint(actor, client_id, program_id, env)
    \/ \E actor \in Actors, search_term \in SearchTerms, env \in Environments :
           search_clients_endpoint(actor, search_term, env)
    \/ \E actor \in Actors, client_id \in ClientIds, env \in Environments :
           get_client_profile_endpoint(actor, client_id, env)

Spec == Init /\ [][Next]_vars

-----------------------------------------------------------------------------
(* The guarded routes under every actor and every role assignment, each with
   one request body *)

TB == <<"T", "B">>
Jo == <<"J", "o">>
Doe == <<"D", "o", "e">>
Dob == <<"1990-01-01">>
Female == <<"F">>
JoContact == <<"j", "@", "x">>

NextAccess ==
    \/ \E env \in Healthy : lifespan_startup(env)
    \/ lifespan_shutdown
    \/ \E email \in Emails, env \in Healthy : register(email, env)
    \/ \E actor \in Actors, email \in Emails, role \in RoleInputs, env \in Healthy :
           set_user_role(actor, email, role, env)
    \/ \E actor \in Actors, env \in Healthy : create_program_endpoint(actor, TB, None, env)
    \/ \E actor \in Actors, env \in Healthy :
           create_client_endpoint(actor, Jo, Doe, Dob, Female, JoContact, env)
    \/ \E actor \in Actors, env \in Healthy : create_enrollment_endpoint(actor, <<"1">>, <<"1">>, env)

SpecAccess == Init /\ [][NextAccess]_vars

-----------------------------------------------------------------------------
(* Client registration and search: one staff user, every first name and
   contact *)

Al == <<"A", "l">>

NextClients ==
    \/ \E env \in Healthy : lifespan_startup(env)
    \/ \E env \in Healthy : register(OtherEmail, env)
    \/ \E env \in Healthy : set_user_role(AdminEmail, OtherEmail, Staff, env)
    \/ \E first_name \in FirstNames, contact \in Contacts, env \in Healthy :
           create_client_endpoint(OtherEmail, first_name, Doe, Dob, Female, contact, env)
    \/ \E search_term \in SearchTerms, env \in Healthy :
           search_clients_endpoint(OtherEmail, search_term, env)

SpecClients == Init /\ [][NextClients]_vars

-----------------------------------------------------------------------------
(* Programs, clients, enrollments and the reads over them, by the bootstrap
   admin, who creates programs and then takes the staff role *)

NextEnroll ==
    \/ \E env \in Healthy : lifespan_startup(env)
    \/ \E env \in Healthy : set_user_role(AdminEmail, AdminEmail, Staff, env)
    \/ \E description \in Descriptions, env \in Healthy :
           create_program_endpoint(AdminEmail, TB, description, env)
    \/ \E first_name \in {Jo, Al}, env \in Healthy :
           create_client_endpoint(AdminEmail, first_name, Doe, Dob, Female, JoContact, env)
    \/ \E client_id \in ClientIds, program_id \in ProgramIds, env \in Healthy :
           create_enrollment_endpoint(AdminEmail, client_id, program_id, env)
    \/ \E search_term \in SearchTerms, env \in Healthy :
           search_clients_endpoint(AdminEmail, search_term, env)
    \/ \E client_id \in ClientIds, env \in Healthy :
           get_client_profile_endpoint(AdminEmail, client_id, env)

SpecEnroll == Init /\ [][NextEnroll]_vars

-----------------------------------------------------------------------------
(* Requests served concurrently: a handler is suspended at each await of a
   query, and the handlers of other connections run in between *)

Connections == 1..MaxInflight

Suspend(s, pc, actor, req) ==
    inflight' = [inflight EXCEPT ![s] = [pc |-> pc, actor |-> actor, req |-> req]]

Resume(s) == inflight' = [inflight EXCEPT ![s] = NoRequest]

\* create_client_endpoint up to the await of query_check
create_client_begin(s, actor, first_name_in, last_name_in, dob_in, gender_in, contact_in, env) ==
    /\ running
    /\ inflight[s].pc = "idle"
    /\ LET op == "create_client"
           req == <<first_name_in, last_name_in, dob_in, gender_in, contact_in>>
           path == "POST /api/clients"
           rejected == depends(actor, Staff)
       IN  IF rejected # 0
           THEN /\ Serve(op, actor, req, rejected, DependsDetail(actor, Staff), NoBody,
                         audit_log, path, env)
                /\ UNCHANGED inflight
           ELSE IF sanitize_input(contact_in) = None
           THEN /\ Serve(op, actor, req, 400, "Failed to create client", NoBody,
                         audit_log, path, env)
                /\ UNCHANGED inflight
           ELSE /\ Suspend(s, "query_check", actor, req)
                /\ UNCHANGED <<resp, audit_log>>
    /\ UNCHANGED <<running, users, programs, clients, enrollments>>

\* query_check returns
create_client_check(s, env) ==
    /\ inflight[s].pc = "query_check"
    /\ LET actor == inflight[s].actor
           req == inflight[s].req
       IN  IF existing_client(sanitize_input(req[1]), sanitize_input(req[2]),
                              sanitize_input(req[3]), sanitize_input(req[4]),
                              hash_contact(sanitize_input(req[5]))) # {}
           THEN /\ Serve("create_client", actor, req, 409, "Client already exists", NoBody,
                         audit_log, "POST /api/clients", env)
                /\ Resume(s)
           ELSE /\ Suspend(s, "insert_client", actor, req)
                /\ UNCHANGED <<resp, audit_log>>
    /\ UNCHANGED <<running, users, programs, clients, enrollments>>

\* the INSERT, the audit row and the response
create_client_insert(s, env) ==
    /\ inflight[s].pc = "insert_client"
    /\ LET op == "create_client"
           actor == inflight[s].actor
           req == inflight[s].req
           path == "POST /api/clients"
           first_name == sanitize_input(req[1])
           last_name == sanitize_input(req[2])
           dob == sanitize_input(req[3])
           gender == sanitize_input(req[4])
           contact == sanitize_input(req[5])
           r == insert_client(first_name, last_name, dob, gender, hash_contact(contact))
       IN  IF r.err # ""
           THEN /\ UNCHANGED clients
                /\ Serve(op, actor, req, 400, "Failed to create client", NoBody,
                         audit_log, path, env)
           ELSE /\ Cardinality(clients) < MaxClients
                /\ clients' = r.rows
                /\ IF env.commit
                   THEN Serve(op, actor, req, 201, "",
                              {[client_id |-> r.id, first_name |-> first_name,
                                last_name |-> last_name, dob |-> dob, gender |-> gender,
                                contact |-> contact, programs |-> EmptyBag]},
                              log_action(audit_log, actor, "create_client",
                                         <<r.id, first_name, last_name>>, TRUE),
                              path, env)
                   ELSE Serve(op, actor, req, 400, "Failed to create client", NoBody,
                              audit_log, path, env)
    /\ Resume(s)
    /\ UNCHANGED <<running, users, programs, enrollments>>

\* create_enrollment_endpoint up to the await of check_client_exists
create_enrollment_begin(s, actor, client_id, program_id, env) ==
    /\ running
    /\ inflight[s].pc = "idle"
    /\ LET rejected == depends(actor, Staff)
           req == <<client_id, program_id>>
       IN  IF rejected # 0
           THEN /\ Serve("create_enrollment", actor, req, rejected,
                         DependsDetail(actor, Staff), NoBody, audit_log,
                         "POST /api/enrollments", env)
                /\ UNCHANGED inflight
           ELSE /\ Suspend(s, "check_client", actor, req)
                /\ UNCHANGED <<resp, audit_log>>
    /\ UNCHANGED <<running, users, programs, clients, enrollments>>

\* check_client_exists returns
create_enrollment_check_client(s, env) ==
    /\ inflight[s].pc = "check_client"
    /\ LET actor == inflight[s].actor
           req == inflight[s].req
       IN  IF ~check_client_exists(req[1])
           THEN /\ Serve("create_enrollment", actor, req, 404, "Client does not exist",
                         NoBody, audit_log, "POST /api/enrollments", env)
                /\ Resume(s)
           ELSE /\ Suspend(s, "check_program", actor, req)
                /\ UNCHANGED <<resp, audit_log>>
    /\ UNCHANGED <<running, users, programs, clients, enrollments>>

\* check_program_exists returns
create_enrollment_check_program(s, env) ==
    /\ inflight[s].pc = "check_program"
    /\ LET actor == inflight[s].actor
           req == inflight[s].req
       IN  IF ~check_program_exists(req[2])
           THEN /\ Serve("create_enrollment", actor, req, 404, "Program does not exist",
                         NoBody, audit_log, "POST /api/enrollments", env)
                /\ Resume(s)
           ELSE /\ Suspend(s, "insert_enrollment", actor, req)
                /\ UNCHANGED <<resp, audit_log>>
    /\ UNCHANGED <<running, users, programs, clients, enrollments>>

\* the INSERT, the audit row and the response
create_enrollment_insert(s, env) ==
    /\ inflight[s].pc = "insert_enrollment"
    /\ LET op == "create_enrollment"
           actor == inflight[s].actor
           req == inflight[s].req
           path == "POST /api/enrollments"
           r == insert_enrollment(req[1], req[2])
       IN  /\ Cardinality(enrollments) < MaxEnrollments
           /\ enrollments' = r.rows
           /\ IF env.commit
              THEN Serve(op, actor, req, 201, "",
                         {[enrollment_id |-> r.id, client_id |-> req[1],
                           program_id |-> req[2]]},
                         log_action(audit_log, actor, "create_enrollment",
                                    <<r.id, req[1], req[2]>>, TRUE),
                         path, env)
              ELSE Serve(op, actor, req, 400, "Failed to create enrollment", NoBody,
                         audit_log, path, env)
    /\ Resume(s)
    /\ UNCHANGED <<running, users, programs, clients>>

NextConc ==
    \/ \E env \in Healthy : lifespan_startup(env)
    \/ \E env \in Healthy : set_user_role(AdminEmail, AdminEmail, Staff, env)
    \/ \E env \in Healthy : create_program_endpoint(AdminEmail, TB, None, env)
    \/ \E s \in Connections, env \in Healthy :
           create_client_begin(s, AdminEmail, Jo, Doe, Dob, Female, JoContact, env)
    \/ \E s \in Connections, env \in Healthy : create_client_check(s, env)
    \/ \E s \in Connections, env \in Healthy : create_client_insert(s, env)
    \/ \E s \in Connections, client_id \in ClientIds, program_id \in ProgramIds,
          env \in Healthy :
           create_enrollment_begin(s, AdminEmail, client_id, program_id, env)
    \/ \E s \in Connections, env \in Healthy : create_enrollment_check_client(s, env)
    \/ \E s \in Connections, env \in Healthy : create_enrollment_check_program(s, env)
    \/ \E s \in Connections, env \in Healthy : create_enrollment_insert(s, env)

SpecConc == Init /\ [][NextConc]_vars

-----------------------------------------------------------------------------------------------------------------------------------------------------
(* The unguarded /api/init-admin route over the registered users *)

NextAdmin ==
    \/ \E env \in Healthy : lifespan_startup(env)
    \/ lifespan_shutdown
    \/ \E email \in Emails, env \in Healthy : register(email, env)
    \/ \E actor \in Actors, email \in EmailInputs, env \in Healthy :
           init_admin(actor, email, env)
    \/ \E actor \in Actors, email \in Emails, role \in Roles, env \in Healthy :
           set_user_role(actor, email, role, env)

SpecAdmin == Init /\ [][NextAdmin]_vars

-----------------------------------------------------------------------------
(* The write routes where the audit commit may fail and the middleware may
   find the user *)

NextAudit ==
    \/ \E env \in Environments : lifespan_startup(env)
    \/ \E env \in Environments : set_user_role(AdminEmail, AdminEmail, Staff, env)
    \/ \E env \in Environments : create_program_endpoint(AdminEmail, TB, None, env)
    \/ \E env \in Environments :
           create_client_endpoint(AdminEmail, Jo, Doe, Dob, Female, JoContact, env)
    \/ \E env \in Environments :
           create_enrollment_endpoint(AdminEmail, <<"1">>, <<"1">>, env)

SpecAudit == Init /\ [][NextAudit]_vars

-----------------------------------------------------------------------------
(* Every operation that writes the audit log, with one request body each.
   The audit commit may fail and the middleware may find the user at startup,
   registration, create_program and the reads *)

NextLog ==
    \/ \E env \in Environments : lifespan_startup(env)
    \/ lifespan_shutdown
    \/ \E env \in Environments : register(OtherEmail, env)
    \/ \E env \in Healthy : set_user_role(AdminEmail, AdminEmail, Staff, env)
    \/ \E env \in Healthy : init_admin(Anonymous, AdminEmail, env)
    \/ \E env \in Environments : create_program_endpoint(AdminEmail, TB, None, env)
    \/ \E env \in Healthy :
           create_client_endpoint(AdminEmail, Jo, Doe, Dob, Female, JoContact, env)
    \/ \E env \in Healthy :
           create_enrollment_endpoint(AdminEmail, <<"1">>, <<"1">>, env)
    \/ \E env \in Environments : search_clients_endpoint(AdminEmail, <<"o">>, env)
    \/ \E env \in Environments : get_client_profile_endpoint(AdminEmail, <<"1">>, env)

SpecLog == Init /\ [][NextLog]_vars

-----
(* Properties *)

GuardedOps == {"create_program", "create_client", "create_enrollment", "set_role"}

RequiredRole(op) == IF op \in {"create_program", "set_role"} THEN Admin ELSE Staff

ClientTuple(c) == <<c.first_name, c.last_name, c.dob, c.gender, c.contact>>

\* the tuple create_client is called with for a request body
RequestTuple(req) ==
    <<sanitize_input(req[1]), sanitize_input(req[2]), sanitize_input(req[3]),
      sanitize_input(req[4]),
      IF sanitize_input(req[5]) = None THEN None ELSE hash_contact(sanitize_input(req[5]))>>

IsStaff(actor) == actor \in Emails /\ users[actor] = Staff

IsAdmin(actor) == actor \in Emails /\ users[actor] = Admin

\* C3: when each create_client call runs to completion before the next
\* request starts, no two stored clients share the tuple (first_name,
\* last_name, dob, gender, contact)
C3_NoTwoClientsShareTuple ==
    \A c1, c2 \in clients : ClientTuple(c1) = ClientTuple(c2) => c1 = c2

\* C3 witness: two clients are stored and a create_client has been refused as
\* a duplicate
C3_Witness ==
    /\ Cardinality(clients) = MaxClients
    /\ resp.op = "create_client"
    /\ resp.status = 409

\* C4: in every reachable state, requests interleaved at their awaits
\* included, every stored enrollment carries the client_id of a stored client
\* and the program_id of a stored program
C4_EnrollmentsReferenceStoredRows ==
    \A e \in enrollments :
        /\ \E c \in clients : c.client_id = e.client_id
        /\ \E p \in programs : p.program_id = e.program_id

\* C4 witness: an enrollment is stored while the create_enrollment of another
\* connection is past its checks and before its INSERT
C4_Witness ==
    /\ enrollments # {}
    /\ \E s \in Connections : inflight[s].pc = "insert_enrollment"

\* C5: for a staff user, a create_client with a payload that is complete and
\* not stored is answered 201 and stores one client; the same payload sent
\* again as the next request is answered 409 "Client already exists" and
\* stores no client
C5_DuplicateClientRejected ==
    [][/\ (/\ resp'.op = "create_client"
           /\ IsStaff(resp'.actor)
           /\ None \notin {RequestTuple(resp'.req)[i] : i \in 1..5}
           /\ ~\E c \in clients : ClientTuple(c) = RequestTuple(resp'.req))
          => (/\ resp'.status = 201
              /\ Cardinality(clients') = Cardinality(clients) + 1)
       /\ (/\ resp.op = "create_client"
           /\ resp.status = 201
           /\ resp'.op = "create_client"
           /\ resp'.req = resp.req
           /\ IsStaff(resp'.actor))
          => (/\ resp'.status = 409
              /\ resp'.detail = "Client already exists"
              /\ clients' = clients)]_vars

\* C5 witness: a staff user's create_client has been answered 409, the
\* request before it that stored anything having created the client of that
\* name
C5_Witness ==
    /\ resp.op = "create_client"
    /\ resp.status = 409
    /\ resp.detail = "Client already exists"
    /\ IsStaff(resp.actor)
    /\ audit_log # <<>>
    /\ audit_log[Len(audit_log)].action = "create_client"
    /\ audit_log[Len(audit_log)].details[2] = sanitize_input(resp.req[1])
    /\ Cardinality(clients) = 1

\* C6: for an admin, a create_program answered 201 and sent again with the
\* same name and description as the next request is answered 409 "Program
\* already exists", and the second call stores no program
C6_DuplicateProgramRejected ==
    [][(/\ resp.op = "create_program"
        /\ resp.status = 201
        /\ resp'.op = "create_program"
        /\ resp'.req = resp.req
        /\ IsAdmin(resp'.actor))
       => (/\ resp'.status = 409
           /\ resp'.detail = "Program already exists"
           /\ programs' = programs)]_vars

\* C7: for a staff user, create_enrollment with a client_id of no stored
\* client is answered 404 "Client does not exist", whether or not the program
\* is stored; with a stored client and a program_id of no stored program it is
\* answered 404 "Program does not exist"; in both cases no enrollment is stored
C7_MissingReferenceRejected ==
    [][(/\ resp'.op = "create_enrollment"
        /\ IsStaff(resp'.actor))
       => /\ ~check_client_exists(resp'.req[1])
             => (/\ resp'.status = 404
                 /\ resp'.detail = "Client does not exist"
                 /\ enrollments' = enrollments)
          /\ (check_client_exists(resp'.req[1]) /\ ~check_program_exists(resp'.req[2]))
             => (/\ resp'.status = 404
                 /\ resp'.detail = "Program does not exist"
                 /\ enrollments' = enrollments)]_vars

\* C7 witness: client and program are both missing, other clients and programs
\* being stored, and the answer names the client
C7_Witness ==
    /\ resp.op = "create_enrollment"
    /\ resp.status = 404
    /\ resp.detail = "Client does not exist"
    /\ IsStaff(resp.actor)
    /\ clients # {}
    /\ programs # {}
    /\ ~check_program_exists(resp.req[2])

\* C8: for a staff user, a create_enrollment answered 201 and sent again with
\* the same client_id and program_id is answered 409 "Enrollment already
\* exists", and no two stored enrollments share the pair (client_id, program_id)
C8_DuplicateEnrollmentRejected ==
    [][/\ (/\ resp.op = "create_enrollment"
           /\ resp.status = 201
           /\ resp'.op = "create_enrollment"
           /\ resp'.req = resp.req
           /\ IsStaff(resp'.actor))
          => (/\ resp'.status = 409
              /\ resp'.detail = "Enrollment already exists"
              /\ enrollments' = enrollments)
       /\ \A e1, e2 \in enrollments' :
              (e1.client_id = e2.client_id /\ e1.program_id = e2.program_id) => e1 = e2]_vars

\* the programs a client is enrolled in
EnrolledPrograms(client_id) ==
    {p \in programs : \E e \in enrollments :
        e.client_id = client_id /\ e.program_id = p.program_id}

\* C9: get_client_profile of a stored client enrolled in N programs returns N
\* program entries, each the (program_id, name, description) that
\* create_program answered and stored
C9_ProfileListsEachEnrolledProgramOnce ==
    (resp.op = "get_client_profile" /\ resp.status = 200)
    => \A profile \in resp.body :
           /\ BagCardinality(profile.programs) = Cardinality(EnrolledPrograms(resp.req[1]))
           /\ BagToSet(profile.programs) \subseteq programs

\* term occurs in s, letters compared without case
Contains(s, term) ==
    \E i \in 1..(Len(s) - Len(term) + 1) :
        \A k \in 1..Len(term) : lower(s[i + k - 1]) = lower(term[k])

\* C10: search_clients(term) returns the stored clients whose first_name or
\* last_name contains term, one result each and no other client, and every
\* result has an empty programs list
C10_SearchReturnsSubstringMatches ==
    (resp.op = "search_clients" /\ resp.status = 200 /\ sanitize_input(resp.req[1]) # None)
    => /\ {r.client_id : r \in resp.body}
          = {c.client_id : c \in {d \in clients :
                \/ Contains(d.first_name, sanitize_input(resp.req[1]))
                \/ Contains(d.last_name, sanitize_input(resp.req[1]))}}
       /\ \A r \in resp.body : r.programs = EmptyBag

\* the stored client a response object is about
StoredClient(client_id) == CHOOSE c \in clients : c.client_id = client_id

\* C11 as first stated: the contact of a create_client response is the contact
\* submitted, and the contact stored is the hash of the submitted contact, not
\* the plaintext
C11_ResponseContactIsSubmitted ==
    (resp.op = "create_client" /\ resp.status = 201)
    => \A r \in resp.body :
           /\ r.contact = resp.req[5]
           /\ StoredClient(r.client_id).contact = hash_contact(resp.req[5])
           /\ StoredClient(r.client_id).contact # resp.req[5]

\* C11: the contact of a create_client response is the submitted contact as
\* sanitize_input leaves it, and the contact stored is the hash of that value,
\* which is neither that value nor the submitted one
C11_ResponseContactIsSanitized ==
    (resp.op = "create_client" /\ resp.status = 201)
    => \A r \in resp.body :
           /\ r.contact = sanitize_input(resp.req[5])
           /\ StoredClient(r.client_id).contact = <<"sha256">> \o sanitize_input(resp.req[5])
           /\ StoredClient(r.client_id).contact # sanitize_input(resp.req[5])
           /\ StoredClient(r.client_id).contact # resp.req[5]

\* C11 witness: a client has been created from a contact that sanitize_input
\* changes
C11_Witness ==
    /\ resp.op = "create_client"
    /\ resp.status = 201
    /\ sanitize_input(resp.req[5]) # resp.req[5]

\* C12: the contact that search_clients and get_client_profile return for a
\* client is the plaintext submitted at its creation: one of the submitted
\* contacts, and the one whose hash the client row stores
C12_ReadsReturnPlaintextContact ==
    (resp.op \in {"search_clients", "get_client_profile"} /\ resp.status = 200)
    => \A r \in resp.body :
           /\ r.contact \in Contacts
           /\ StoredClient(r.client_id).contact = hash_contact(sanitize_input(r.contact))

AdminEmails(u) == {e \in Emails : u[e] = Admin}

\* C13: when the startup runs over a user table without an admin, the table
\* has exactly one admin afterwards, and it is admin@q.com
C13_BootstrapEnsuresOneAdmin ==
    [][(~running /\ running' /\ AdminEmails(users) = {})
       => AdminEmails(users') = {AdminEmail}]_vars

\* C16: set_role by an admin with a role outside admin, staff, viewer is
\* answered 400, and with a valid role and the email of no user 404; no role
\* changes in either case
C16_SetRoleErrors ==
    [][(resp'.op = "set_role" /\ IsAdmin(resp'.actor))
       => /\ sanitize_input(resp'.req[2]) \notin Roles
             => (resp'.status = 400 /\ users' = users)
          /\ (/\ sanitize_input(resp'.req[2]) \in Roles
              /\ \/ sanitize_input(resp'.req[1]) \notin Emails
                 \/ users[sanitize_input(resp'.req[1])] = Absent)
             => (resp'.status = 404 /\ users' = users)]_vars

\* C17: a registered user with the default role is answered 201 on
\* create_program, on create_client with a client not stored, and on
\* create_enrollment of a stored client in a stored program
C17_DefaultRoleCreates ==
    [][(resp'.actor \in Emails /\ users[resp'.actor] = Viewer)
       => /\ resp'.op = "create_program" => resp'.status = 201
          /\ (/\ resp'.op = "create_client"
              /\ ~\E c \in clients : ClientTuple(c) = RequestTuple(resp'.req))
             => resp'.status = 201
          /\ (/\ resp'.op = "create_enrollment"
              /\ check_client_exists(resp'.req[1])
              /\ check_program_exists(resp'.req[2]))
             => resp'.status = 201]_vars

\* C20: a set_role answered 200 leaves the named user with the named role and
\* every other user as before; the next request of that user is authorized
\* against the new role: create_program is answered 403 when the role is not
\* admin, and create_client of a client not stored is answered 201 when the
\* role is staff
C20_RoleChangeTakesEffect ==
    [][/\ (resp'.op = "set_role" /\ resp'.status = 200)
          => /\ users'[sanitize_input(resp'.req[1])] = sanitize_input(resp'.req[2])
             /\ \A e \in Emails \ {sanitize_input(resp'.req[1])} : users'[e] = users[e]
       /\ (/\ resp.op = "set_role"
           /\ resp.status = 200
           /\ resp'.actor = sanitize_input(resp.req[1]))
          => /\ (resp'.op = "create_program" /\ sanitize_input(resp.req[2]) # Admin)
                => (resp'.status = 403 /\ programs' = programs)
             /\ (/\ resp'.op = "create_client"
                 /\ sanitize_input(resp.req[2]) = Staff
                 /\ ~\E c \in clients : ClientTuple(c) = RequestTuple(resp'.req))
                => (resp'.status = 201 /\ clients' # clients)]_vars

\* C20 witness: the bootstrap admin, whose last recorded request made it
\* staff, has been refused create_program
C20_Witness ==
    /\ resp.op = "create_program"
    /\ resp.status = 403
    /\ resp.actor = AdminEmail
    /\ audit_log # <<>>
    /\ audit_log[Len(audit_log)].action = "set_role"
    /\ audit_log[Len(audit_log)].details = <<AdminEmail, Staff>>

\* C14: a create request whose program, client or enrollment has been stored
\* is answered 201, whatever happens to the audit row
C14_RecorderFailureIsSwallowed ==
    [][(/\ resp'.op \in {"create_program", "create_client", "create_enrollment"}
        /\ \/ programs' # programs
           \/ clients' # clients
           \/ enrollments' # enrollments)
       => resp'.status = 201]_vars

\* the actions the handlers record with log_action
RecorderActions == {"create_program", "create_client", "create_enrollment", "set_role"}

\* the rows a step appends with one of those actions
RecordedBy(log, log_after) ==
    {log_after[i] : i \in {j \in (Len(log) + 1)..Len(log_after) :
                               log_after[j].action \in RecorderActions}}

\* C15: the audit log only grows; a row with action create_program,
\* create_client, create_enrollment or set_role is appended by a request of
\* that operation which is answered with success, whose mutation is stored
\* (the row names the stored id, or the user and its new role), and the row
\* carries the user that passed the role check; a request answered 403, 404 or
\* 409 appends no such row
C15_RecordedAfterMutation ==
    [][/\ SubSeq(audit_log', 1, Len(audit_log)) = audit_log
       /\ \A row \in RecordedBy(audit_log, audit_log') :
              /\ row.action = resp'.op
              /\ resp'.status \in {200, 201}
              /\ row.user_id = resp'.actor
              /\ resp'.actor \in Emails
              /\ users[resp'.actor] = RequiredRole(resp'.op)
              /\ row.action = "create_program"
                 => \E p \in programs' \ programs : p.program_id = row.details[1]
              /\ row.action = "create_client"
                 => \E c \in clients' \ clients : c.client_id = row.details[1]
              /\ row.action = "create_enrollment"
                 => \E e \in enrollments' \ enrollments : e.enrollment_id = row.details[1]
              /\ row.action = "set_role"
                 => users'[row.details[1]] = row.details[2]
       /\ resp'.status \in {403, 404, 409}
          => RecordedBy(audit_log, audit_log') = {}]_vars

\* C15 witness: an enrollment has been created and recorded under the staff
\* user, next to a row of the middleware
C15_Witness ==
    /\ resp.op = "create_enrollment"
    /\ resp.status = 201
    /\ \E i \in DOMAIN audit_log :
           /\ audit_log[i].action = "create_enrollment"
           /\ audit_log[i].user_id = resp.actor
    /\ \E i \in DOMAIN audit_log : audit_log[i].action = "POST /api/enrollments"

\* C18: once an init_admin request has made a user admin, no later init_admin
\* request makes another user admin
C18_InitAdminOnce ==
    [][\A i \in DOMAIN audit_log :
           (audit_log[i].action = "init_admin" /\ audit_log[i].details[1] = <<"Set">>)
           => ~(/\ resp'.op = "init_admin"
                /\ resp'.status = 200
                /\ sanitize_input(resp'.req[1]) # audit_log[i].details[2]
                /\ users[sanitize_input(resp'.req[1])] # Admin
                /\ users'[sanitize_input(resp'.req[1])] = Admin)]_vars

\* C19: a create_client request that has passed the duplicate check stores
\* its client and is answered 201 whatever the table holds when the INSERT
\* runs, so that two requests with one payload that both pass the check before
\* either inserts are both answered 201 and leave two clients with one tuple
C19_InsertDoesNotCheckAgain ==
    [][\A s \in Connections :
           (/\ inflight[s].pc = "insert_client"
            /\ inflight'[s].pc = "idle"
            /\ None \notin {RequestTuple(inflight[s].req)[i] : i \in 1..5})
           => (/\ resp'.op = "create_client"
               /\ resp'.status = 201
               /\ \E c \in clients' \ clients :
                      ClientTuple(c) = RequestTuple(inflight[s].req))]_vars

\* C19 witness: two stored clients share their tuple, and both requests have
\* been answered 201 and recorded
C19_Witness ==
    /\ \E c1, c2 \in clients : c1 # c2 /\ ClientTuple(c1) = ClientTuple(c2)
    /\ resp.op = "create_client"
    /\ resp.status = 201
    /\ Cardinality({i \in DOMAIN audit_log : audit_log[i].action = "create_client"}) = 2

\* C21: a startup that finds a user with role admin creates no user, changes
\* no role and appends no audit row, so every startup after the first leaves
\* the users and the audit log as they were
C21_BootstrapIdempotent ==
    [][(~running /\ running' /\ AdminEmails(users) # {})
       => (users' = users /\ audit_log' = audit_log)]_vars

\* C21 witness: the application has been started again, after a run in which
\* a user registered, with admin@q.com still admin
C21_Witness ==
    /\ running
    /\ resp = NoResponse
    /\ users[AdminEmail] = Admin
    /\ \E i \in DOMAIN audit_log : audit_log[i].action = "register"
    /\ Cardinality({i \in DOMAIN audit_log : audit_log[i].details[1] = <<"Created">>}) = 1

\* C22: the audit log of each state extends the log of the state before: no
\* step removes, reorders or changes a row
C22_AuditLogAppendOnly ==
    [][/\ Len(audit_log') >= Len(audit_log)
       /\ \A i \in DOMAIN audit_log : audit_log'[i] = audit_log[i]]_vars

\* C22 witness: the log holds the bootstrap row, a row of a handler and a row
\* of the middleware, in that order
C22_Witness ==
    /\ Len(audit_log) >= 3
    /\ audit_log[1].user_id = System
    /\ \E i, j \in DOMAIN audit_log :
           /\ i < j
           /\ audit_log[i].action \in RecorderActions
           /\ audit_log[j].details = <<<<"Client IP">>>>

====
